---- MODULE Spec2Model ----
(***************************************************************************)
(* Daily Note Mover (src/main.js): the date-format compiler, the date      *)
(* parser and the two operations that move notes, as a state machine.      *)
(* Strings are TLA+ strings; a character is a string of length one.        *)
(***************************************************************************)
EXTENDS Integers, Sequences, FiniteSets, TLC

\* ------------------------------------------------------------------ bounds
\* Longest format, in tokens, that the format universe is built from.
MaxTokens == 3
\* Largest number of files in the initial vault.
MaxFiles == 2
\* Largest number of operations started in one behaviour.
MaxRuns == 2

\* ----------------------------------------------------------------- strings
CharAt(s, i) == SubSeq(s, i, i)

DigitChars == "0123456789"
UpperChars == "ABCDEFGHIJKLMNOPQRSTUVWXYZ"
LowerChars == "abcdefghijklmnopqrstuvwxyz"

\* \d
DigitSet == {CharAt(DigitChars, i) : i \in 1..10}
\* [A-Za-z]
AlphaSet == {CharAt(UpperChars, i) : i \in 1..26} \cup {CharAt(LowerChars, i) : i \in 1..26}

DigitVal(c) == (CHOOSE i \in 1..10 : CharAt(DigitChars, i) = c) - 1

LowerChar(c) ==
  IF \E i \in 1..26 : CharAt(UpperChars, i) = c
  THEN CharAt(LowerChars, CHOOSE i \in 1..26 : CharAt(UpperChars, i) = c)
  ELSE c

RECURSIVE toLowerCase(_)
\* String.prototype.toLowerCase
toLowerCase(s) ==
  IF Len(s) = 0 THEN "" ELSE LowerChar(CharAt(s, 1)) \o toLowerCase(Tail(s))

\* String.prototype.startsWith
startsWith(s, p) == Len(p) <= Len(s) /\ SubSeq(s, 1, Len(p)) = p

\* s.indexOf(p), 1-based; 0 when p does not occur in s
IndexOf(s, p) ==
  LET hits == {i \in 1..(Len(s) - Len(p) + 1) : SubSeq(s, i, i + Len(p) - 1) = p}
  IN IF hits = {} THEN 0 ELSE CHOOSE i \in hits : \A j \in hits : i <= j

\* s.replace('.md', ''): the first occurrence only
removeMd(s) ==
  LET i == IndexOf(s, ".md")
  IN IF i = 0 THEN s ELSE SubSeq(s, 1, i - 1) \o SubSeq(s, i + 3, Len(s))

\* String(n).padStart(w, '0') for n >= 0
RECURSIVE decimal(_)
decimal(n) == IF n < 10 THEN CharAt(DigitChars, n + 1)
              ELSE decimal(n \div 10) \o CharAt(DigitChars, (n % 10) + 1)

RECURSIVE padStart(_, _)
padStart(s, w) == IF Len(s) >= w THEN s ELSE padStart("0" \o s, w)

\* --------------------------------------------------------- token grammar
\* A regex atom: a character class with a repetition range, or a literal.
\* max = -1 is the open range of {4,}.
Atom(class, min, max) == [class |-> class, min |-> min, max |-> max, ch |-> ""]
Lit(c) == [class |-> "lit", min |-> 1, max |-> 1, ch |-> c]

tokens ==
  [t \in {"DD", "MM", "YYYY", "YY", "MMM", "MMMM"} |->
     CASE t = "DD"   -> [regex |-> Atom("digit", 2, 2), type |-> "day"]
       [] t = "MM"   -> [regex |-> Atom("digit", 2, 2), type |-> "month"]
       [] t = "YYYY" -> [regex |-> Atom("digit", 4, 4), type |-> "year"]
       [] t = "YY"   -> [regex |-> Atom("digit", 2, 2), type |-> "year"]
       [] t = "MMM"  -> [regex |-> Atom("alpha", 3, 3), type |-> "month"]
       [] t = "MMMM" -> [regex |-> Atom("alpha", 4, -1), type |-> "month"]]

ShortNames == <<"jan", "feb", "mar", "apr", "may", "jun",
                "jul", "aug", "sep", "oct", "nov", "dec">>
FullNames == <<"january", "february", "march", "april", "may", "june",
               "july", "august", "september", "october", "november", "december">>

\* monthNames[name], with 0 for undefined (a name the table does not hold)
monthNames(name) ==
  IF \E i \in 1..12 : ShortNames[i] = name \/ FullNames[i] = name
  THEN CHOOSE i \in 1..12 : ShortNames[i] = name \/ FullNames[i] = name
  ELSE 0

\* --------------------------------------------------------------- the regex
InClass(atom, c) ==
  CASE atom.class = "digit" -> c \in DigitSet
    [] atom.class = "alpha" -> c \in AlphaSet
    [] atom.class = "lit"   -> c = atom.ch

RECURSIVE MatchFrom(_, _, _, _)
\* atoms k.. match s from position pos to its end (the pattern is anchored ^...$)
MatchFrom(atoms, k, s, pos) ==
  IF k > Len(atoms) THEN pos = Len(s) + 1
  ELSE LET a == atoms[k]
           left == Len(s) - pos + 1
           hi == IF a.max = -1 \/ a.max > left THEN left ELSE a.max
       IN \E n \in a.min..hi :
            /\ \A j \in pos..(pos + n - 1) : InClass(a, CharAt(s, j))
            /\ MatchFrom(atoms, k + 1, s, pos + n)

\* regex.test(s)
RegexTest(atoms, s) == MatchFrom(atoms, 1, s, 1)

\* ------------------------------------------------------ isValidDateFormat
\* format.match(/(DD|MM|YYYY|YY|MMM|MMMM)/): some token occurs somewhere
isValidDateFormat(format) ==
  /\ format # ""
  /\ \E t \in DOMAIN tokens : IndexOf(format, t) # 0

\* ------------------------------------------------------ getDateFormatInfo
RECURSIVE splitFormat(_, _, _)
\* format.split(/([-\/])/): the pieces of text and the separators between them
splitFormat(s, i, cur) ==
  IF i > Len(s) THEN <<cur>>
  ELSE IF CharAt(s, i) \in {"-", "/"}
       THEN <<cur, CharAt(s, i)>> \o splitFormat(s, i + 1, "")
       ELSE splitFormat(s, i + 1, cur \o CharAt(s, i))

RECURSIVE compileParts(_, _, _)
\* the loop over formatParts
compileParts(formatParts, k, acc) ==
  IF k > Len(formatParts) THEN acc
  ELSE LET part == formatParts[k] IN
    IF part \in DOMAIN tokens
    THEN compileParts(formatParts, k + 1,
           [acc EXCEPT !.regex = Append(@, tokens[part].regex),
                       !.parts = Append(@, [token |-> part, type |-> tokens[part].type])])
    ELSE IF part \in {"-", "/"}
    THEN compileParts(formatParts, k + 1,
           [acc EXCEPT !.regex = Append(@, Lit(part)), !.separator = part])
    ELSE compileParts(formatParts, k + 1, acc)

\* The compiled format of a dateFormat setting: regex, parts, separator.
getDateFormatInfo(dateFormat) ==
  LET format == IF dateFormat = "" THEN "DD-MM-YYYY" ELSE dateFormat
      body == compileParts(splitFormat(format, 1, ""), 1,
                           [regex |-> <<>>, parts |-> <<>>, separator |-> ""])
  IN [body EXCEPT !.regex = @ \o <<Lit("."), Lit("m"), Lit("d")>>]

\* ---------------------------------------------------------------- parseDate
Null == [ok |-> FALSE, year |-> 0, month |-> 0, day |-> 0]
\* parseInt's NaN (no string of the model reads as this number)
NaN == -1000000

RECURSIVE digitsValue(_, _, _)
digitsValue(s, i, acc) ==
  IF i > Len(s) \/ CharAt(s, i) \notin DigitSet THEN acc
  ELSE digitsValue(s, i + 1, acc * 10 + DigitVal(CharAt(s, i)))

\* parseInt(s, 10): an optional sign, then the leading digits; NaN when no
\* digit follows
parseInt(s) ==
  LET signed == Len(s) > 0 /\ CharAt(s, 1) \in {"-", "+"}
      body == IF signed THEN Tail(s) ELSE s
  IN IF Len(body) = 0 \/ CharAt(body, 1) \notin DigitSet THEN NaN
     ELSE IF signed /\ CharAt(s, 1) = "-" THEN 0 - digitsValue(body, 1, 0)
     ELSE digitsValue(body, 1, 0)

RECURSIVE splitOn(_, _, _, _)
splitOn(s, sep, i, cur) ==
  IF i > Len(s) THEN <<cur>>
  ELSE IF CharAt(s, i) = sep THEN <<cur>> \o splitOn(s, sep, i + 1, "")
       ELSE splitOn(s, sep, i + 1, cur \o CharAt(s, i))

\* cleanStr.split(separator).filter(s => s); split('') cuts into characters
segmentsOf(cleanStr, separator) ==
  IF separator = "" THEN [i \in 1..Len(cleanStr) |-> CharAt(cleanStr, i)]
  ELSE SelectSeq(splitOn(cleanStr, separator, 1, ""), LAMBDA x : x # "")

IsLeap(y) == (y % 4 = 0 /\ y % 100 # 0) \/ y % 400 = 0
DaysInMonth(y, m) ==
  IF m = 2 THEN (IF IsLeap(y) THEN 29 ELSE 28)
  ELSE IF m \in {4, 6, 9, 11} THEN 30 ELSE 31

\* A variant of the calendar: a date that keeps whatever it is given.
NewDateUnchecked(year, month, day) == [year |-> year, month |-> month, day |-> day]

\* new Date(year, month - 1, day) for year >= 100, month in 1..12, day in 1..31:
\* a day past the month's end rolls over into the next month
NewDate(year, month, day) ==
  IF day <= DaysInMonth(year, month)
  THEN [year |-> year, month |-> month, day |-> day]
  ELSE [year |-> year, month |-> month + 1, day |-> day - DaysInMonth(year, month)]

\* A variant of the pivot: 50 counted with the years of this century.
resolveYYInclusive(year) ==
  IF year = NaN THEN NaN ELSE IF year <= 50 THEN 2000 + year ELSE 1900 + year

\* year = year < 50 ? 2000 + year : 1900 + year  (NaN stays NaN)
resolveYY(year) == IF year = NaN THEN NaN ELSE IF year < 50 THEN 2000 + year ELSE 1900 + year

RECURSIVE parseLoop(_, _, _, _)
\* the loop over parts; acc holds day, month, year (0: still undefined) and
\* whether the loop has returned null
parseLoop(parts, k, segments, acc) ==
  IF k > Len(parts) THEN acc
  ELSE IF k > Len(segments) THEN [acc EXCEPT !.ok = FALSE]
  ELSE LET part == parts[k]
           segment == segments[k]
       IN CASE part.type = "day" ->
                 LET day == parseInt(segment) IN
                 IF day # NaN /\ (day < 1 \/ day > 31) THEN [acc EXCEPT !.ok = FALSE]
                 ELSE parseLoop(parts, k + 1, segments, [acc EXCEPT !.day = day])
            [] part.type = "month" ->
                 IF part.token \in {"MMM", "MMMM"}
                 THEN LET month == monthNames(toLowerCase(segment)) IN
                      IF month = 0 THEN [acc EXCEPT !.ok = FALSE]
                      ELSE parseLoop(parts, k + 1, segments, [acc EXCEPT !.month = month])
                 ELSE LET month == parseInt(segment) IN
                      IF month # NaN /\ (month < 1 \/ month > 12) THEN [acc EXCEPT !.ok = FALSE]
                      ELSE parseLoop(parts, k + 1, segments, [acc EXCEPT !.month = month])
            [] part.type = "year" ->
                 LET raw == parseInt(segment)
                     year == IF part.token = "YY" THEN resolveYY(raw) ELSE raw
                 IN IF year # NaN /\ (year < 1000 \/ year > 9999) THEN [acc EXCEPT !.ok = FALSE]
                    ELSE parseLoop(parts, k + 1, segments, [acc EXCEPT !.year = year])

\* parseDate(dateStr) of a compiled format: a date, or Null
parseDate(info, dateStr) ==
  LET cleanStr == removeMd(dateStr) IN
  IF ~RegexTest(info.regex, cleanStr \o ".md") THEN Null
  ELSE LET got == parseLoop(info.parts, 1, segmentsOf(cleanStr, info.separator),
                            [ok |-> TRUE, year |-> 0, month |-> 0, day |-> 0])
       IN IF ~got.ok THEN Null
          ELSE IF got.day \in {0, NaN} \/ got.month \in {0, NaN} \/ got.year \in {0, NaN}
          THEN Null
          ELSE LET date == NewDate(got.year, got.month, got.day) IN
               IF date.year # got.year \/ date.month # got.month \/ date.day # got.day
               THEN Null
               ELSE [ok |-> TRUE, year |-> date.year, month |-> date.month, day |-> date.day]

\* ------------------------------------------------- dates as they are written
\* A date written out in a format: DD, MM, YYYY and YY zero-padded, MMM and
\* MMMM as the capitalised English name; "Xyz" and "Xyzzy" stand for a name
\* that is no month.
Capitalised(name) ==
  CharAt(UpperChars, CHOOSE i \in 1..26 : CharAt(LowerChars, i) = CharAt(name, 1)) \o Tail(name)

RECURSIVE writeDate(_, _, _)
writeDate(fmt, i, date) ==
  LET at(t) == i + Len(t) - 1 <= Len(fmt) /\ SubSeq(fmt, i, i + Len(t) - 1) = t IN
  IF i > Len(fmt) THEN ""
  ELSE IF at("MMMM") THEN
         (IF date.month \in 1..12 THEN Capitalised(FullNames[date.month]) ELSE "Xyzzy")
         \o writeDate(fmt, i + 4, date)
  ELSE IF at("MMM") THEN
         (IF date.month \in 1..12 THEN Capitalised(ShortNames[date.month]) ELSE "Xyz")
         \o writeDate(fmt, i + 3, date)
  ELSE IF at("MM") THEN padStart(decimal(date.month), 2) \o writeDate(fmt, i + 2, date)
  ELSE IF at("DD") THEN padStart(decimal(date.day), 2) \o writeDate(fmt, i + 2, date)
  ELSE IF at("YYYY") THEN padStart(decimal(date.year), 4) \o writeDate(fmt, i + 4, date)
  ELSE IF at("YY") THEN padStart(decimal(date.year % 100), 2) \o writeDate(fmt, i + 2, date)
  ELSE CharAt(fmt, i) \o writeDate(fmt, i + 1, date)

\* -------------------------------------------------------- the input universe
RECURSIVE joinTokens(_, _)
joinTokens(ts, sep) ==
  IF Len(ts) = 0 THEN ""
  ELSE IF Len(ts) = 1 THEN ts[1]
  ELSE ts[1] \o sep \o joinTokens(Tail(ts), sep)

\* Every format of up to MaxTokens different tokens, joined by "-", by "/" or
\* by nothing.
TokenSeqs ==
  UNION {{ts \in [1..n -> DOMAIN tokens] : \A i, j \in 1..n : ts[i] = ts[j] => i = j} :
           n \in 1..MaxTokens}
TokenFormats == {joinTokens(ts, sep) : ts \in TokenSeqs, sep \in {"", "-", "/"}}

\* Formats outside the token grammar: empty, token-less, mixed separators,
\* unrecognized text, a doubled separator, a leading separator.
OtherFormats ==
  {"", "abc", "DD-MM/YYYY", "DD/MM-YYYY", "DD/XX-MM-YYYY", "xDD-MM-YYYY",
   "DD--MM-YYYY", "-YY/MM/DD", "D-M-Y"}

Formats == TokenFormats \cup OtherFormats

BaseDate == [day |-> 15, month |-> 7, year |-> 2019]
Days == {0, 1, 31, 32}
Months == {0, 1, 5, 12, 13}
Years == {999, 1000, 1949, 1950, 1999, 2000, 2049, 2050, 9999}
\* The years a two-digit year can stand for: one for every value 00..99.
WindowYears == 1950..2049
CalendarCases ==
  {[day |-> 29, month |-> 2, year |-> 2020], [day |-> 29, month |-> 2, year |-> 2019],
   [day |-> 29, month |-> 2, year |-> 1900], [day |-> 29, month |-> 2, year |-> 2000],
   [day |-> 30, month |-> 2, year |-> 2020], [day |-> 31, month |-> 4, year |-> 2021],
   [day |-> 30, month |-> 4, year |-> 2021], [day |-> 31, month |-> 5, year |-> 2019],
   [day |-> 31, month |-> 12, year |-> 2019], [day |-> 31, month |-> 6, year |-> 2019]}
WrittenDates ==
  {[BaseDate EXCEPT !.day = d] : d \in Days}
  \cup {[BaseDate EXCEPT !.month = m] : m \in Months}
  \cup {[BaseDate EXCEPT !.year = y] : y \in Years}
  \cup CalendarCases

\* Formats a name may be written in when it is not the format under test.
OtherWritten == {"DD-MM-YYYY", "DDMMMYYYY"}
\* Strings that are no written date.
RawInputs == {"", ".md", "15-07-2019.md", "15-07-2019x", "constructor", "1-7-2019"}

\* ------------------------------------------------------------ the vault
\* TFile.name and TFile.extension of a path
LastIndexOf(s, c) ==
  LET hits == {i \in 1..Len(s) : CharAt(s, i) = c}
  IN IF hits = {} THEN 0 ELSE CHOOSE i \in hits : \A j \in hits : j <= i
fileName(path) == SubSeq(path, LastIndexOf(path, "/") + 1, Len(path))
fileExtension(path) ==
  LET name == fileName(path)
      dot == LastIndexOf(name, ".")
  IN IF dot = 0 THEN "" ELSE SubSeq(name, dot + 1, Len(name))
parentFolder(path) ==
  LET slash == LastIndexOf(path, "/") IN IF slash = 0 THEN "" ELSE SubSeq(path, 1, slash - 1)

\* the settings field initializer
DefaultSettings ==
  [targetFolder |-> "Old Daily Notes", dateFormat |-> "DD-MM-YYYY",
   useYearMonthSubfolders |-> FALSE]
\* loadData() of a vault that has no data.json
NoData == [targetFolder |-> "", dateFormat |-> "", useYearMonthSubfolders |-> FALSE, none |-> TRUE]
Persisted(t, f, b) ==
  [targetFolder |-> t, dateFormat |-> f, useYearMonthSubfolders |-> b, none |-> FALSE]

\* adapter.exists(path): a folder or a file
exists(path, dirSet, fileSeq) ==
  path \in dirSet \/ \E i \in 1..Len(fileSeq) : fileSeq[i] = path

\* vault.createFolder(path) throws: an I/O fault, or the parent is missing
\* (the callers have just seen that the path itself does not exist)
createFolderThrows(path, dirSet, fault) ==
  fault \/ (parentFolder(path) # "" /\ parentFolder(path) \notin dirSet)

\* vault.rename(file, newPath) throws: an I/O fault, the destination is taken,
\* or its folder is missing
renameThrows(newPath, dirSet, fileSeq, fault) ==
  \/ fault
  \/ exists(newPath, dirSet, fileSeq)
  \/ (parentFolder(newPath) # "" /\ parentFolder(newPath) \notin dirSet)

\* `${a}/${b}`
Slash(a, b) == a \o "/" \o b

\* if (!(await adapter.exists(folder))) await vault.createFolder(folder):
\* threw: createFolder threw; created: the folder it made, if any
ensureFolder(folder, dirSet, fileSeq, fault) ==
  IF exists(folder, dirSet, fileSeq)
  THEN [threw |-> FALSE, dirs |-> dirSet, created |-> <<>>]
  ELSE IF createFolderThrows(folder, dirSet, fault)
  THEN [threw |-> TRUE, dirs |-> dirSet, created |-> <<>>]
  ELSE [threw |-> FALSE, dirs |-> dirSet \cup {folder}, created |-> <<folder>>]

\* The destination folder of a pass, with what became of the vault's folders.
Destination(threw, dirSet, created, folder) ==
  [threw |-> threw, dirs |-> dirSet, created |-> created, folder |-> folder]

monthAfterYear(first, second, monthFolder) ==
  Destination(second.threw, second.dirs, first.created \o second.created, monthFolder)

yearThenMonth(first, monthFolder, fileSeq, io) ==
  IF first.threw THEN Destination(TRUE, first.dirs, first.created, monthFolder)
  ELSE monthAfterYear(first, ensureFolder(monthFolder, first.dirs, fileSeq, io = "month"),
                      monthFolder)

subfoldersOf(yearFolder, month, dirSet, fileSeq, io) ==
  yearThenMonth(ensureFolder(yearFolder, dirSet, fileSeq, io = "year"),
                Slash(yearFolder, month), fileSeq, io)

\* A variant of the month folder: the month's number as it is, unpadded.
ensureSubfoldersUnpadded(targetFolder, fileDate, dirSet, fileSeq, io) ==
  subfoldersOf(Slash(targetFolder, decimal(fileDate.year)),
               decimal(fileDate.month), dirSet, fileSeq, io)

\* The year and month folders of a date under targetFolder, created when
\* absent, year first; threw: a createFolder threw, and what follows it in
\* the handler did not run.
ensureSubfolders(targetFolder, fileDate, dirSet, fileSeq, io) ==
  subfoldersOf(Slash(targetFolder, decimal(fileDate.year)),
               padStart(decimal(fileDate.month), 2), dirSet, fileSeq, io)

\* newPath's folder: the month folder, or targetFolder itself
destinationOf(targetFolder, fileDate, useSubfolders, dirSet, fileSeq, io) ==
  IF useSubfolders THEN ensureSubfolders(targetFolder, fileDate, dirSet, fileSeq, io)
  ELSE Destination(FALSE, dirSet, <<>>, targetFolder)

\* What one pass of a for-loop body did.
\*   kind: "nomatch", "invalid", "today", "archived", "renamed", "renameFailed",
\*         "threw" (an exception left the loop)
Outcome(kind, fileDate, dirSet, created, newPath) ==
  [kind |-> kind, date |-> fileDate, dirs |-> dirSet, created |-> created, newPath |-> newPath]

sameDay(a, b) == a.year = b.year /\ a.month = b.month /\ a.day = b.day

\* try { await vault.rename(file, newPath) } catch
renameTo(fileDate, dest, newPath, fileSeq, io) ==
  IF renameThrows(newPath, dest.dirs, fileSeq, io = "rename")
  THEN Outcome("renameFailed", fileDate, dest.dirs, dest.created, newPath)
  ELSE Outcome("renamed", fileDate, dest.dirs, dest.created, newPath)

\* A variant of the skip: the test of the path's prefix negated.
moveToInverted(path, targetFolder, fileDate, dest, fileSeq, io) ==
  IF dest.threw THEN Outcome("threw", fileDate, dest.dirs, dest.created, "")
  ELSE IF ~startsWith(path, targetFolder \o "/")
  THEN Outcome("archived", fileDate, dest.dirs, dest.created, Slash(dest.folder, fileName(path)))
  ELSE renameTo(fileDate, dest, Slash(dest.folder, fileName(path)), fileSeq, io)

\* moveOldDailyNotes once newPath is known: a file under targetFolder/ is skipped
moveTo(path, targetFolder, fileDate, dest, fileSeq, io) ==
  IF dest.threw THEN Outcome("threw", fileDate, dest.dirs, dest.created, "")
  ELSE IF startsWith(path, targetFolder \o "/")
  THEN Outcome("archived", fileDate, dest.dirs, dest.created, Slash(dest.folder, fileName(path)))
  ELSE renameTo(fileDate, dest, Slash(dest.folder, fileName(path)), fileSeq, io)

\* moveOldDailyNotes once the name is parsed: today's note is skipped
moveParsed(path, targetFolder, fileDate, useSubfolders, now, dirSet, fileSeq, io) ==
  IF ~fileDate.ok THEN Outcome("invalid", Null, dirSet, <<>>, "")
  ELSE IF sameDay(fileDate, now) THEN Outcome("today", fileDate, dirSet, <<>>, "")
  ELSE moveTo(path, targetFolder, fileDate,
              destinationOf(targetFolder, fileDate, useSubfolders, dirSet, fileSeq, io),
              fileSeq, io)

\* The body of moveOldDailyNotes' loop for one file.
moveOne(path, targetFolder, compiled, useSubfolders, now, dirSet, fileSeq, io) ==
  IF ~(fileExtension(path) = "md" /\ RegexTest(compiled.regex, fileName(path)))
  THEN Outcome("nomatch", Null, dirSet, <<>>, "")
  ELSE moveParsed(path, targetFolder, parseDate(compiled, removeMd(fileName(path))),
                  useSubfolders, now, dirSet, fileSeq, io)

\* relocateOldNotes once newPath is known
relocateTo(path, fileDate, dest, fileSeq, io) ==
  IF dest.threw THEN Outcome("threw", fileDate, dest.dirs, dest.created, "")
  ELSE renameTo(fileDate, dest, Slash(dest.folder, fileName(path)), fileSeq, io)

\* relocateOldNotes once the name is parsed
relocateParsed(path, targetFolder, fileDate, useSubfolders, dirSet, fileSeq, io) ==
  IF ~fileDate.ok THEN Outcome("invalid", Null, dirSet, <<>>, "")
  ELSE relocateTo(path, fileDate,
                  destinationOf(targetFolder, fileDate, useSubfolders, dirSet, fileSeq, io),
                  fileSeq, io)

\* The body of relocateOldNotes' loop for one file.
relocateOne(path, targetFolder, compiled, useSubfolders, dirSet, fileSeq, io) ==
  IF ~(fileExtension(path) = "md" /\ RegexTest(compiled.regex, fileName(path)))
  THEN Outcome("nomatch", Null, dirSet, <<>>, "")
  ELSE relocateParsed(path, targetFolder, parseDate(compiled, removeMd(fileName(path))),
                      useSubfolders, dirSet, fileSeq, io)

\* ------------------------------------------------------- the vault universe
LegacyFolder == "Old Daily Notes"
\* The paths a note may lie at at the start: two dated notes a day apart and
\* an impossible date; in the vault's root, the legacy folder and Archive.
CandidatePaths ==
  <<"15-07-2019.md", "Old Daily Notes/15-07-2019.md", "Archive/15-07-2019.md",
    "16-07-2019.md", "Old Daily Notes/16-07-2019.md", "31-04-2021.md">>

RECURSIVE listOf(_)
\* the candidate paths of a set of indices, in getFiles() order
listOf(S) ==
  IF S = {} THEN <<>>
  ELSE LET m == CHOOSE i \in S : \A j \in S : i <= j
       IN <<CandidatePaths[m]>> \o listOf(S \ {m})

\* The day "new Date()" falls on: 16-07-2019.md is today's note.
TodaySet == {[year |-> 2019, month |-> 7, day |-> 16]}
\* data.json at load
PersistedSet ==
  {NoData, Persisted("Archive", "abc", FALSE), Persisted("Archive", "DD-MM-YYYY", TRUE)}
\* What may be typed into the two text fields of the settings tab.
TypedFolders == {"", "Archive"}
TypedFormats == {"", "abc"}
\* The I/O call of a loop pass that fails, if any: the first failure ends the
\* pass, so one is enough.
IOFaults == {"none", "year", "month", "rename"}

NoDate == [day |-> 0, month |-> 0, year |-> 0]
NoInfo == [regex |-> <<>>, parts |-> <<>>, separator |-> ""]
NoOutcome == Outcome("none", Null, {}, <<>>, "")
NoEvent == [op |-> "none", path |-> "", outcome |-> NoOutcome, dirsBefore |-> {},
            useSubfolders |-> FALSE]
IdleRun ==
  [op |-> "none", phase |-> "idle", targetFolder |-> "", format |-> "", queue |-> <<>>,
   i |-> 1, movedCount |-> 0, listed |-> FALSE, aborted |-> FALSE,
   \* history: no call failed in this operation; an I/O fault has struck, in
   \* this operation or an earlier one; the settings were not edited since it
   \* started; it is a moveOldDailyNotes started right after another, which
   \* was clean and moved `before` files
   clean |-> TRUE, faulted |-> FALSE, quiet |-> TRUE,
   second |-> FALSE, afterClean |-> FALSE, before |-> 0]

\* ------------------------------------------------------------------- state
VARIABLES
  format,   \* the dateFormat under test
  stage,    \* "start", "validated", "compiled", "parsed"; "plugin" in Spec
  valid,    \* isValidDateFormat(format)
  info,     \* getDateFormatInfo() of format
  written,  \* how dateStr was produced: the format and date written, if any
  dateStr,  \* parseDate's argument
  parsed,   \* parseDate's result
  loaded,   \* onload has run
  layoutReady, \* the onLayoutReady callback has fired
  data,     \* data.json
  settings, \* this.settings
  files,    \* the vault's files: their paths, in getFiles() order
  dirs,     \* the vault's folders
  today,    \* the day new Date() falls on
  run,      \* the operation in progress, or the last one that ended
  event,    \* what the last loop pass did (history)
  runs      \* the operations started so far

parseVars == <<format, stage, valid, info, written, dateStr, parsed>>
pluginVars == <<loaded, layoutReady, data, settings, files, dirs, today, run, event, runs>>
vars == <<parseVars, pluginVars>>

\* --------------------------------------------------------------- the plugin
ParseIdle ==
  /\ format = ""
  /\ stage = "plugin"
  /\ valid = FALSE
  /\ info = NoInfo
  /\ written = [fmt |-> "", date |-> NoDate, raw |-> TRUE]
  /\ dateStr = ""
  /\ parsed = Null

Init ==
  /\ ParseIdle
  /\ loaded = FALSE
  /\ layoutReady = FALSE
  /\ data \in PersistedSet
  /\ settings = DefaultSettings
  /\ \E S \in SUBSET (1..Len(CandidatePaths)) :
       /\ Cardinality(S) <= MaxFiles
       /\ files = listOf(S)
       /\ dirs = {parentFolder(CandidatePaths[k]) : k \in S} \ {""}
  /\ today \in TodaySet
  /\ run = IdleRun
  /\ event = NoEvent
  /\ runs = 0

\* onload: loadSettings, saveSettings, the date format's validation, and the
\* registration of the settings tab, the commands and the layout callback
onload ==
  /\ ~loaded
  /\ LET merged == IF data.none THEN DefaultSettings
                   ELSE [targetFolder |-> data.targetFolder, dateFormat |-> data.dateFormat,
                         useYearMonthSubfolders |-> data.useYearMonthSubfolders]
         checked == IF isValidDateFormat(merged.dateFormat) THEN merged
                    ELSE [merged EXCEPT !.dateFormat = "DD-MM-YYYY"]
     IN /\ settings' = checked
        /\ data' = Persisted(checked.targetFolder, checked.dateFormat,
                             checked.useYearMonthSubfolders)
  /\ loaded' = TRUE
  /\ event' = NoEvent
  /\ UNCHANGED <<layoutReady, files, dirs, today, run, runs, parseVars>>

\* saveSettings
saved(st) == Persisted(st.targetFolder, st.dateFormat, st.useYearMonthSubfolders)

\* The settings tab.  display() builds the target folder field and the date
\* format field, then reads this.settings.useYearMonthSubfolders of the tab
\* itself, which has no settings: the TypeError ends display() before the
\* toggle of the subfolders has its onChange, so useYearMonthSubfolders
\* changes only through data.json.  showSummaryNotification decides a notice
\* and nothing else, and is left out, as are the failures of loadData and
\* saveData, which the plugin catches.
\* the target folder field's onChange
setTargetFolder ==
  /\ layoutReady
  /\ run.phase # "running"
  /\ \E value \in TypedFolders :
       settings' = [settings EXCEPT !.targetFolder = IF value = "" THEN "Old Daily Notes" ELSE value]
  /\ data' = saved(settings')
  /\ run' = [run EXCEPT !.quiet = FALSE]
  /\ event' = NoEvent
  /\ UNCHANGED <<loaded, layoutReady, files, dirs, today, runs, parseVars>>

\* the date format field's onChange
setDateFormat ==
  /\ layoutReady
  /\ run.phase # "running"
  /\ \E value \in TypedFormats :
       settings' = [settings EXCEPT !.dateFormat = IF value = "" THEN "DD-MM-YYYY" ELSE value]
  /\ data' = saved(settings')
  /\ run' = [run EXCEPT !.quiet = FALSE]
  /\ event' = NoEvent
  /\ UNCHANGED <<loaded, layoutReady, files, dirs, today, runs, parseVars>>

allFiles(fileSeq) == [k \in 1..Len(fileSeq) |-> k]
RECURSIVE underLegacy(_, _)
\* getFiles().filter(file => file.path.startsWith(oldFolder + '/'))
underLegacy(fileSeq, k) ==
  IF k > Len(fileSeq) THEN <<>>
  ELSE (IF startsWith(fileSeq[k], LegacyFolder \o "/") THEN <<k>> ELSE <<>>)
       \o underLegacy(fileSeq, k + 1)
legacyFiles(fileSeq) == underLegacy(fileSeq, 1)

\* The start of either operation: the settings are read, the format is
\* compiled, the target folder is created when absent and the files are listed.
startRun(op) ==
  /\ loaded
  /\ run.phase # "running"
  /\ runs < MaxRuns
  /\ runs' = runs + 1
  /\ \E fault \in BOOLEAN :
       LET targetFolder == settings.targetFolder
           make == ~exists(targetFolder, dirs, files)
           threw == make /\ createFolderThrows(targetFolder, dirs, fault)
           base == [IdleRun EXCEPT !.op = op, !.targetFolder = targetFolder,
                                   !.format = settings.dateFormat,
                                   !.second = (run.op = "move" /\ op = "move"
                                               /\ run.phase = "done" /\ run.quiet),
                                   !.afterClean = (run.clean /\ ~run.aborted),
                                   !.before = run.movedCount,
                                   !.faulted = run.faulted]
       IN /\ dirs' = IF make /\ ~threw THEN dirs \cup {targetFolder} ELSE dirs
          /\ run' = IF threw
                    THEN [base EXCEPT !.phase = "done", !.aborted = TRUE, !.clean = FALSE,
                                      !.faulted = TRUE]
                    ELSE [base EXCEPT !.phase = "running", !.listed = TRUE,
                                      !.queue = IF op = "move" THEN allFiles(files)
                                                ELSE legacyFiles(files)]
  /\ event' = NoEvent
  /\ UNCHANGED <<loaded, data, settings, files, today, parseVars>>

\* the onLayoutReady callback: the workspace is ready, once, before the user
\* can open the settings tab or run a command
layoutReadyMove ==
  /\ ~layoutReady
  /\ layoutReady' = TRUE
  /\ startRun("move")

\* the command "Debug: Force Move Old Daily Notes"
commandMove ==
  /\ layoutReady
  /\ UNCHANGED layoutReady
  /\ startRun("move")

\* the command "Relocate Old Daily Notes to New Folder"
commandRelocate ==
  /\ layoutReady
  /\ UNCHANGED layoutReady
  /\ startRun("relocate")

\* One pass of the running operation's loop.
applyOutcome(path, k, out, io) ==
  /\ files' = IF out.kind = "renamed" THEN [files EXCEPT ![k] = out.newPath] ELSE files
  /\ dirs' = out.dirs
  /\ run' = [run EXCEPT
               !.i = IF out.kind = "threw" THEN @ ELSE @ + 1,
               !.movedCount = IF out.kind = "renamed" THEN @ + 1 ELSE @,
               !.phase = IF out.kind = "threw" THEN "done" ELSE @,
               !.aborted = (out.kind = "threw"),
               !.clean = @ /\ out.kind \notin {"threw", "renameFailed"},
               !.faulted = @ \/ out.kind = "threw"
                             \/ (out.kind = "renameFailed" /\ io = "rename")]
  /\ event' = [op |-> run.op, path |-> path, outcome |-> out, dirsBefore |-> dirs,
               useSubfolders |-> settings.useYearMonthSubfolders]

moveOldDailyNotes ==
  /\ run.phase = "running" /\ run.op = "move" /\ run.i <= Len(run.queue)
  /\ \E io \in IOFaults :
       LET k == run.queue[run.i] IN
       applyOutcome(files[k], k,
         moveOne(files[k], run.targetFolder, getDateFormatInfo(run.format),
                 settings.useYearMonthSubfolders, today, dirs, files, io), io)
  /\ UNCHANGED <<loaded, layoutReady, data, settings, today, runs, parseVars>>

relocateOldNotes ==
  /\ run.phase = "running" /\ run.op = "relocate" /\ run.i <= Len(run.queue)
  /\ \E io \in IOFaults :
       LET k == run.queue[run.i] IN
       applyOutcome(files[k], k,
         relocateOne(files[k], run.targetFolder, getDateFormatInfo(run.format),
                     settings.useYearMonthSubfolders, dirs, files, io), io)
  /\ UNCHANGED <<loaded, layoutReady, data, settings, today, runs, parseVars>>

\* The loop is over: the summary notice, and the operation returns.
finish ==
  /\ run.phase = "running" /\ run.i > Len(run.queue)
  /\ run' = [run EXCEPT !.phase = "done"]
  /\ event' = NoEvent
  /\ UNCHANGED <<loaded, layoutReady, data, settings, files, dirs, today, runs, parseVars>>

Next ==
  \/ onload
  \/ setTargetFolder
  \/ setDateFormat
  \/ layoutReadyMove
  \/ commandMove
  \/ commandRelocate
  \/ moveOldDailyNotes
  \/ relocateOldNotes
  \/ finish

Spec == Init /\ [][Next]_vars

\* ---------------------------------------------- the compiler and the parser
PluginIdle ==
  /\ loaded = FALSE
  /\ layoutReady = FALSE
  /\ data = NoData
  /\ settings = DefaultSettings
  /\ files = <<>>
  /\ dirs = {}
  /\ today = [year |-> 2019, month |-> 7, day |-> 16]
  /\ run = IdleRun
  /\ event = NoEvent
  /\ runs = 0

InitParse ==
  /\ PluginIdle
  /\ format \in Formats
  /\ stage = "start"
  /\ valid = FALSE
  /\ info = NoInfo
  /\ written = [fmt |-> "", date |-> NoDate, raw |-> TRUE]
  /\ dateStr = ""
  /\ parsed = Null

Validate ==
  /\ stage = "start"
  /\ valid' = isValidDateFormat(format)
  /\ stage' = "validated"
  /\ UNCHANGED <<format, info, written, dateStr, parsed, pluginVars>>

Compile ==
  /\ stage = "validated"
  /\ info' = getDateFormatInfo(format)
  /\ stage' = "compiled"
  /\ UNCHANGED <<format, valid, written, dateStr, parsed, pluginVars>>

ParseWritten ==
  /\ stage = "compiled"
  /\ \E w \in {format} \cup OtherWritten :
       \E date \in IF w = format THEN WrittenDates ELSE CalendarCases :
         /\ written' = [fmt |-> w, date |-> date, raw |-> FALSE]
         /\ dateStr' = writeDate(w, 1, date)
         /\ parsed' = parseDate(info, dateStr')
  /\ stage' = "parsed"
  /\ UNCHANGED <<format, valid, info, pluginVars>>

\* Every two-digit year, for a format that compiles a YY field.
ParseTwoDigitYear ==
  /\ stage = "compiled"
  /\ \E k \in 1..Len(info.parts) : info.parts[k].token = "YY"
  /\ \E y \in WindowYears :
       LET date == [BaseDate EXCEPT !.year = y] IN
       /\ written' = [fmt |-> format, date |-> date, raw |-> FALSE]
       /\ dateStr' = writeDate(format, 1, date)
       /\ parsed' = parseDate(info, dateStr')
  /\ stage' = "parsed"
  /\ UNCHANGED <<format, valid, info, pluginVars>>

ParseRaw ==
  /\ stage = "compiled"
  /\ \E s \in RawInputs :
       /\ written' = [fmt |-> "", date |-> NoDate, raw |-> TRUE]
       /\ dateStr' = s
       /\ parsed' = parseDate(info, s)
  /\ stage' = "parsed"
  /\ UNCHANGED <<format, valid, info, pluginVars>>

NextParse == Validate \/ Compile \/ ParseWritten \/ ParseTwoDigitYear \/ ParseRaw

SpecParse == InitParse /\ [][NextParse]_vars

\* ===================================================================== claims
\* ------------------------------------------------ compiling and parsing
HasType(parts, type) == \E k \in 1..Len(parts) : parts[k].type = type
HasToken(parts, token) == \E k \in 1..Len(parts) : parts[k].token = token
HasAllTypes(parts) ==
  HasType(parts, "day") /\ HasType(parts, "month") /\ HasType(parts, "year")
\* the token of the last year field: the one whose value parseDate keeps
LastYearToken(parts) ==
  LET ks == {k \in 1..Len(parts) : parts[k].type = "year"}
  IN parts[CHOOSE k \in ks : \A j \in ks : j <= k].token

\* The calendar, as a table.
MonthLength(y, m) ==
  LET feb == IF y % 400 = 0 THEN 29 ELSE IF y % 100 = 0 THEN 28
             ELSE IF y % 4 = 0 THEN 29 ELSE 28
  IN <<31, feb, 31, 30, 31, 30, 31, 31, 30, 31, 30, 31>>[m]
CalendarValid(date) ==
  /\ date.year \in 1000..9999
  /\ date.month \in 1..12
  /\ date.day >= 1 /\ date.day <= MonthLength(date.year, date.month)
AsParsed(date) == [ok |-> TRUE, year |-> date.year, month |-> date.month, day |-> date.day]
\* a name was written in the format under test, and parsed
ParsedOwn == stage = "parsed" /\ ~written.raw /\ written.fmt = format

\* C5: for every format built from the recognised tokens that holds a day, a
\* month and a year token (separator-less ones and MMMM included) and every
\* calendar-valid date, compiling the format and parsing the date written in
\* it gives that date back.  Years are kept within 1950..2049, where a
\* two-digit year stands for the year written.
C5_RoundTrip ==
  (/\ ParsedOwn
   /\ format \in TokenFormats
   /\ IndexOf(format, "DD") # 0 /\ IndexOf(format, "MM") # 0 /\ IndexOf(format, "YY") # 0
   /\ CalendarValid(written.date)
   /\ written.date.year \in WindowYears)
  => parsed = AsParsed(written.date)

C9_TwoDigitYear ==
  (ParsedOwn /\ format \in TokenFormats) =>
    /\ (parsed.ok /\ LastYearToken(info.parts) = "YY") =>
         LET value == written.date.year % 100 IN
         /\ parsed.year = IF value < 50 THEN 2000 + value ELSE 1900 + value
         /\ parsed.year \in 1000..9999
    /\ (parsed.ok /\ LastYearToken(info.parts) = "YYYY") =>
         parsed.year = written.date.year
    /\ (/\ HasAllTypes(info.parts)
        /\ format \in {joinTokens(ts, "-") : ts \in TokenSeqs}
        /\ ~HasToken(info.parts, "DD") \/ written.date.day = BaseDate.day
        /\ written.date.month = BaseDate.month
        /\ written.date.year \in WindowYears) => parsed.ok

\* both sides of the pivot: 50 is read as 1950
C9_Witness ==
  /\ ParsedOwn /\ format = "DD-MM-YY" /\ dateStr = "15-07-50"
  /\ parsed = [ok |-> TRUE, year |-> 1950, month |-> 7, day |-> 15]

\* C10: a format that isValidDateFormat accepts compiles to at least one
\* date field.
C10_ValidCompilesAField ==
  (stage \in {"compiled", "parsed"} /\ valid) => Len(info.parts) >= 1

\* ------------------------------------------------------ moving the notes
\* a rename was issued in the step just taken
RenameIssued == event.outcome.kind \in {"renamed", "renameFailed"}
MoveDone == run.phase = "done" /\ run.op = "move"

\* A file moveOldDailyNotes is to archive: a Markdown file whose name matches
\* the format the operation compiled and parses to a date that is not today.
Eligible(path, compiled) ==
  /\ fileExtension(path) = "md"
  /\ RegexTest(compiled.regex, fileName(path))
  /\ parseDate(compiled, removeMd(fileName(path))).ok
  /\ ~sameDay(parseDate(compiled, removeMd(fileName(path))), today)
EligibleOutside(compiled) ==
  {k \in 1..Len(files) : /\ Eligible(files[k], compiled)
                         /\ ~startsWith(files[k], run.targetFolder \o "/")}
EligibleInside(compiled) ==
  {k \in 1..Len(files) : /\ Eligible(files[k], compiled)
                         /\ startsWith(files[k], run.targetFolder \o "/")}

C2_TodayNeverRenamed ==
  RenameIssued => ~sameDay(event.outcome.date, today)

\* C3: a file whose path already begins with targetFolder/ is never renamed
\* or moved, by moveOldDailyNotes or by relocateOldNotes.
C3_ArchivedNeverRenamed ==
  event.outcome.kind = "renamed" => ~startsWith(event.path, run.targetFolder \o "/")

\* C4: a failure to create a folder or to rename a file is recovered per
\* file: a run of moveOldDailyNotes that listed the vault's files ends only
\* after it has been through every one of them.
C4_EveryFileProcessed ==
  (MoveDone /\ run.listed) => run.i > Len(run.queue)

\* C6: the date format an operation compiles always passes isValidDateFormat.
C6_CompiledFormatValid ==
  run.phase = "running" => isValidDateFormat(run.format)

\* decimal digits, zero-padded
TwoDigits(n) ==
  CharAt(DigitChars, ((n \div 10) % 10) + 1) \o CharAt(DigitChars, (n % 10) + 1)
FourDigits(n) == TwoDigits(n \div 100) \o TwoDigits(n % 100)

\* C7: moveOldDailyNotes renames an eligible file to targetFolder/<name>
\* when subfolders are off, and to targetFolder/<YYYY>/<MM>/<name> (four-digit
\* year, two-digit zero-padded month of the parsed date) when they are on;
\* then both folders exist when the rename is issued, each was created only
\* if it was absent, and the year folder before the month folder.
C7_Destination ==
  (event.op = "move" /\ RenameIssued) =>
    LET out == event.outcome
        name == fileName(event.path)
        yearFolder == run.targetFolder \o "/" \o FourDigits(out.date.year)
        monthFolder == yearFolder \o "/" \o TwoDigits(out.date.month)
    IN IF event.useSubfolders
       THEN /\ out.newPath = monthFolder \o "/" \o name
            /\ {yearFolder, monthFolder} \subseteq out.dirs
            /\ out.created \in {<<>>, <<yearFolder>>, <<monthFolder>>,
                                <<yearFolder, monthFolder>>}
            /\ \A k \in 1..Len(out.created) : out.created[k] \notin event.dirsBefore
            /\ out.dirs = event.dirsBefore \cup {out.created[k] : k \in 1..Len(out.created)}
       ELSE /\ out.newPath = run.targetFolder \o "/" \o name
            /\ out.created = <<>>
            /\ out.dirs = event.dirsBefore

\* a note moved into a year folder and a month folder both made for it
C7_Witness ==
  /\ event.op = "move" /\ event.outcome.kind = "renamed" /\ event.useSubfolders
  /\ Len(event.outcome.created) = 2
  /\ \E k \in 1..Len(files) : files[k] = event.outcome.newPath
====
